---- MODULE Spec2Model ----
(***************************************************************************)
(* A model of the two utilities of the repository:                         *)
(*   tools/metadata_dump.py    normalize_extensions, build_exiftool_command,*)
(*                             run_exiftool_metadata_dump, main            *)
(*   examples/json_summary.py  _load_json_documents, load_metadata_frame,  *)
(*                             summarize_columns, compare_summaries        *)
(* Text that the code inspects character by character (extensions, column  *)
(* names) is a sequence of one-character strings; text it only passes on   *)
(* (paths, file content, command words) is a string.                       *)
(***************************************************************************)
EXTENDS Integers, Sequences, FiniteSets, TLC

VARIABLES
    fs,        \* Dump Runner: destination path -> [exists, content]
    dirs,      \* Dump Runner: the directories that exist among the destinations' parents
    last,      \* Dump Runner: the latest main() invocation (arguments, outcome)
    prev,      \* Dump Runner: the invocation before it
    before,    \* Dump Runner: the latest invocation's destination as it was when it started
    bIn,       \* Command Builder: the arguments of build_exiftool_command
    bOut,      \* Command Builder: its result
    jDoc,      \* Summary CLI: the parsed top-level JSON value of the input file
    jStage,    \* Summary CLI: how far main() has come
    jRecords,  \* Summary CLI: result of _load_json_documents
    jFrame,    \* Summary CLI: result of load_metadata_frame
    jSummary,  \* Summary CLI: result of summarize_columns
    dNew,      \* Differ: the "new" summary
    dOld,      \* Differ: the "existing" summary
    dOut       \* Differ: result of compare_summaries

vars == <<fs, dirs, last, prev, before, bIn, bOut,
          jDoc, jStage, jRecords, jFrame, jSummary, dNew, dOld, dOut>>
dumpVars == <<fs, dirs, last, prev, before>>
buildVars == <<bIn, bOut>>
jsonVars == <<jDoc, jStage, jRecords, jFrame, jSummary>>
diffVars == <<dNew, dOld, dOut>>

(***************************************************************************)
(* Bounds of the model.                                                    *)
(***************************************************************************)
MaxExtLen == 2
MaxExts == 2

(***************************************************************************)
(* Sequences and text.                                                     *)
(***************************************************************************)
SeqsUpTo(S, n) == UNION {[1..k -> S] : k \in 0..n}

\* The characters extensions are drawn from: a blank, a dot, an upper-case letter.
ExtChars == {" ", ".", "A"}

\* str.lower() on one character.
LowerChar(c) == IF c = "A" THEN "a" ELSE c

Lower(s) == [i \in 1..Len(s) |-> LowerChar(s[i])]

IsSpace(c) == c = " "

RECURSIVE LStrip(_)
LStrip(s) == IF s # <<>> /\ IsSpace(Head(s)) THEN LStrip(Tail(s)) ELSE s

RECURSIVE RStrip(_)
RStrip(s) ==
    IF s # <<>> /\ IsSpace(s[Len(s)]) THEN RStrip(SubSeq(s, 1, Len(s) - 1)) ELSE s

\* str.strip()
Strip(s) == RStrip(LStrip(s))

\* The Python string of a sequence of characters.
RECURSIVE Chars2Str(_)
Chars2Str(s) == IF s = <<>> THEN "" ELSE Head(s) \o Chars2Str(Tail(s))

Digit(d) == CASE d = 0 -> "0" [] d = 1 -> "1" [] d = 2 -> "2" [] d = 3 -> "3"
              [] d = 4 -> "4" [] d = 5 -> "5" [] d = 6 -> "6" [] d = 7 -> "7"
              [] d = 8 -> "8" [] d = 9 -> "9"

RECURSIVE NatToStr(_)
NatToStr(n) == IF n < 10 THEN Digit(n) ELSE NatToStr(n \div 10) \o Digit(n % 10)

\* The "{request_all}" of an f-string: the decimal text of an int.
IntToStr(n) == IF n < 0 THEN "-" \o NatToStr(-n) ELSE NatToStr(n)

(***************************************************************************)
(* tools/metadata_dump.py: normalize_extensions, build_exiftool_command    *)
(***************************************************************************)
Ok(v) == [exc |-> "", val |-> v]
Raise(kind) == [exc |-> kind, val |-> <<>>]

\* One pass of the loop body: strip and lower, drop ONE leading dot.
NormalizeOne(ext) ==
    LET e == Lower(Strip(ext))
    IN  IF e # <<>> /\ Head(e) = "." THEN Tail(e) ELSE e

RECURSIVE NormalizedList(_)
NormalizedList(extensions) ==
    IF extensions = <<>> THEN <<>>
    ELSE LET e == NormalizeOne(Head(extensions))
         IN  IF e = <<>> THEN NormalizedList(Tail(extensions))
             ELSE <<e>> \o NormalizedList(Tail(extensions))

normalize_extensions(extensions) ==
    LET normalized == NormalizedList(extensions)
    IN  IF normalized = <<>> THEN Raise("ValueError") ELSE Ok(normalized)

\* A plausible slip: repeated extensions are added once.
RECURSIVE ExtArgsDedup(_)
ExtArgsDedup(exts) ==
    IF exts = <<>> THEN <<>>
    ELSE LET init == SubSeq(exts, 1, Len(exts) - 1)
             e == exts[Len(exts)]
         IN  IF \E i \in 1..Len(init) : init[i] = e THEN ExtArgsDedup(init)
             ELSE ExtArgsDedup(init) \o <<"-ext", Chars2Str(e)>>

\* for ext in normalized_exts: cmd.extend(["-ext", ext])
RECURSIVE ExtArgs(_)
ExtArgs(exts) ==
    IF exts = <<>> THEN <<>>
    ELSE <<"-ext", Chars2Str(Head(exts))>> \o ExtArgs(Tail(exts))

build_exiftool_command(root_dir, extensions, request_all, largefile_support, recursive, exiftool_cmd) ==
    LET n == normalize_extensions(extensions)
    IN  IF n.exc # "" THEN n
        ELSE Ok(<<exiftool_cmd, "-api", "RequestAll=" \o IntToStr(request_all)>>
                \o (IF largefile_support THEN <<"-api", "largefilesupport=1">> ELSE <<>>)
                \o <<"-G1", "-csv">>
                \o (IF recursive THEN <<"-r">> ELSE <<>>)
                \o ExtArgs(n.val)
                \o <<root_dir>>)

(***************************************************************************)
(* Command Builder as a state machine: the arguments are drawn in the      *)
(* initial state, Build applies the function.                              *)
(***************************************************************************)
ExtStrings == SeqsUpTo(ExtChars, MaxExtLen)
ExtLists == SeqsUpTo(ExtStrings, MaxExts)
RequestAllLevels == {3, 10}
BuildRoots == {"/evidence"}

NoBuild == [state |-> "idle"]
BuildIdle == bIn = NoBuild /\ bOut = NoBuild

BuildInit ==
    /\ bIn \in [state : {"args"}, root_dir : BuildRoots, extensions : ExtLists,
                request_all : RequestAllLevels, largefile_support : BOOLEAN,
                recursive : BOOLEAN, exiftool_cmd : {"exiftool"}]
    /\ bOut = NoBuild

Build ==
    /\ bIn.state = "args"
    /\ bOut = NoBuild
    /\ bOut' = [state |-> "done",
                res |-> build_exiftool_command(bIn.root_dir, bIn.extensions,
                            bIn.request_all, bIn.largefile_support,
                            bIn.recursive, bIn.exiftool_cmd)]
    /\ UNCHANGED <<bIn, dumpVars, jsonVars, diffVars>>

(***************************************************************************)
(* tools/metadata_dump.py: run_exiftool_metadata_dump, main                *)
(***************************************************************************)
\* The environment: which root arguments are directories, which names are on PATH.
Roots == {"/evidence", "/missing"}
Directories == {"/evidence"}
ExeNames == {"exiftool", "exiftool-missing"}
OnPath == {"exiftool"}
Dests == {"/out/metadata_master.csv", "/new/dump.csv"}
Parent(p) == IF p = "/out/metadata_master.csv" THEN "/out" ELSE "/new"

\* What the child process may write to its standard output, and its exit status.
ChildOutputs == {"", "SourceFile,"}
ExitCodes == {0, 1}
OldContents == {"old"}
DumpExts == {<<<<"A">>>>, <<<<".">>>>}

NoFile == [exists |-> FALSE, content |-> ""]
File(c) == [exists |-> TRUE, content |-> c]

is_dir(p) == p \in Directories
which(cmd) == cmd \in OnPath
exists(f, p) == f[p].exists
unlink(f, p) == [f EXCEPT ![p] = NoFile]
\* open(..., "w"): the file is created, or truncated.
open_w(f, p) == [f EXCEPT ![p] = File("")]
write(f, p, text) == [f EXCEPT ![p] = File(f[p].content \o text)]

\* A plausible slip: the existing destination is replaced whatever the flag says.
MustRefuseNever(f, output, force) == FALSE

\* if resolved_output.exists(): if not force: raise FileExistsError
MustRefuse(f, output, force) == exists(f, output) /\ ~force

\* A plausible slip: the tool is looked up after the destination is checked.
PreconditionDestFirst(root_dir, output, exiftool_cmd, force, f) ==
    IF ~is_dir(root_dir) THEN "FileNotFoundError(root)"
    ELSE IF MustRefuse(f, output, force) THEN "FileExistsError"
    ELSE IF ~which(exiftool_cmd) THEN "FileNotFoundError(tool)"
    ELSE ""

\* The three checks in the order the code makes them; "" when all pass.
Precondition(root_dir, output, exiftool_cmd, force, f) ==
    IF ~is_dir(root_dir) THEN "FileNotFoundError(root)"
    ELSE IF ~which(exiftool_cmd) THEN "FileNotFoundError(tool)"
    ELSE IF MustRefuse(f, output, force) THEN "FileExistsError"
    ELSE ""

\* The Python exception class of an outcome ("" when none was raised).
ErrorKind(exc) ==
    IF exc \in {"FileNotFoundError(root)", "FileNotFoundError(tool)"}
    THEN "FileNotFoundError" ELSE exc

\* A plausible slip: check=False, the exit status is ignored.
subprocess_run_unchecked(f, output, childOut, childRc) ==
    [fs |-> write(f, output, childOut), exc |-> ""]

\* subprocess.run(cmd, check=True, stdout=handle)
subprocess_run(f, output, childOut, childRc) ==
    [fs |-> write(f, output, childOut),
     exc |-> IF childRc # 0 THEN "CalledProcessError" ELSE ""]

Outcome(exc, f, d, started, cmd) ==
    [exc |-> exc, fs |-> f, dirs |-> d, started |-> started, cmd |-> cmd]

run_exiftool_metadata_dump(f, d, root_dir, output, extensions, request_all, largefile_support, recursive, exiftool_cmd, force, childOut, childRc) ==
    LET pre == Precondition(root_dir, output, exiftool_cmd, force, f)
        \* resolved_output.parent.mkdir(parents=True, exist_ok=True)
        d1 == IF pre = "FileNotFoundError(root)" THEN d ELSE d \cup {Parent(output)}
    IN  IF pre # "" THEN Outcome(pre, f, d1, 0, <<>>)
        ELSE
        LET f1 == IF exists(f, output) THEN unlink(f, output) ELSE f
            cmd == build_exiftool_command(root_dir, extensions, request_all,
                       largefile_support, recursive, exiftool_cmd)
        IN  IF cmd.exc # "" THEN Outcome(cmd.exc, f1, d1, 0, <<>>)
            ELSE
            LET r == subprocess_run(open_w(f1, output), output, childOut, childRc)
            IN  Outcome(r.exc, r.fs, d1, 1, cmd.val)

\* main(): 1 when run_exiftool_metadata_dump raised, 0 otherwise.
ExitStatus(exc) == IF exc # "" THEN 1 ELSE 0

NoCall == [called |-> FALSE]

DumpIdle ==
    /\ fs = [p \in Dests |-> NoFile]
    /\ dirs = {}
    /\ last = NoCall
    /\ prev = NoCall
    /\ before = NoFile

DumpInit ==
    /\ fs \in [Dests -> {NoFile} \cup {File(c) : c \in OldContents}]
    /\ dirs = {Parent(p) : p \in {q \in Dests : fs[q].exists}} \cup {"/out"}
    /\ last = NoCall
    /\ prev = NoCall
    /\ before = NoFile

\* What the next invocation remembers of this one.
Brief(l, f) ==
    IF ~l.called THEN NoCall
    ELSE [called |-> TRUE, root_dir |-> l.root_dir, output |-> l.output,
          exiftool_cmd |-> l.exiftool_cmd, exc |-> l.exc, left |-> f[l.output]]

\* One invocation of main() with default --request-all, large-file support and
\* recursion; the child's output and exit status are the environment's choice.
Main(root_dir, output, extensions, exiftool_cmd, force, childOut, childRc) ==
    LET r == run_exiftool_metadata_dump(fs, dirs, root_dir, output, extensions,
                 3, TRUE, TRUE, exiftool_cmd, force, childOut, childRc)
    IN  /\ fs' = r.fs
        /\ UNCHANGED <<buildVars, jsonVars, diffVars>>
        /\ dirs' = r.dirs
        /\ before' = fs[output]
        /\ prev' = Brief(last, fs)
        /\ last' = [called |-> TRUE, root_dir |-> root_dir, output |-> output,
                    extensions |-> extensions, exiftool_cmd |-> exiftool_cmd,
                    force |-> force, exc |-> r.exc, started |-> r.started,
                    cmd |-> r.cmd, status |-> ExitStatus(r.exc),
                    childOut |-> IF r.started = 0 THEN "" ELSE childOut,
                    childRc |-> IF r.started = 0 THEN 0 ELSE childRc]

DumpNext ==
    \E root_dir \in Roots, output \in Dests, extensions \in DumpExts,
       exiftool_cmd \in ExeNames, force \in BOOLEAN,
       childOut \in ChildOutputs, childRc \in ExitCodes :
        Main(root_dir, output, extensions, exiftool_cmd, force, childOut, childRc)

(***************************************************************************)
(* Dump Runner: properties.                                                *)
(***************************************************************************)
\* The latest two invocations name the same destination, the first of them
\* succeeded (and so created the destination), the second is not forced.
Consecutive ==
    /\ last.called /\ prev.called
    /\ prev.exc = ""
    /\ last.output = prev.output
    /\ ~last.force

\* C1 as stated: of two consecutive invocations on the same destination without
\* force, the first of which succeeded, the second fails with FileExistsError,
\* starts no child process and leaves the destination exactly as the first left it.
C1_SecondRunConflicts ==
    Consecutive =>
        /\ last.exc = "FileExistsError"
        /\ last.started = 0
        /\ prev.left.exists
        /\ fs[last.output] = prev.left

\* C1 amended: the second invocation always fails, starts no child process and
\* leaves the destination exactly as the first left it; the failure is the
\* conflict error when the second invocation's root is a directory and its
\* executable is found, and FileNotFoundError when its root is no directory
\* or its executable is missing.
C1_SecondRunFailsDestUntouched ==
    Consecutive =>
        /\ last.exc # "" /\ last.status = 1
        /\ last.started = 0
        /\ prev.left.exists
        /\ fs[last.output] = prev.left
        /\ (is_dir(last.root_dir) /\ which(last.exiftool_cmd))
               => last.exc = "FileExistsError"
        /\ ~is_dir(last.root_dir) => last.exc = "FileNotFoundError(root)"
        /\ (is_dir(last.root_dir) /\ ~which(last.exiftool_cmd))
               => last.exc = "FileNotFoundError(tool)"

C1_Witness ==
    /\ Consecutive
    /\ last.root_dir = prev.root_dir /\ last.exiftool_cmd = prev.exiftool_cmd
    /\ last.exc = "FileExistsError"
    /\ fs[last.output] = File("SourceFile,")

\* C2 as stated: whenever the root is a directory, the destination exists and
\* force is false, the run fails with the conflict error, also when the
\* executable is missing.
C2_ConflictWheneverDestExists ==
    (last.called /\ is_dir(last.root_dir) /\ before.exists /\ ~last.force)
        => last.exc = "FileExistsError"

\* C2 amended: the checks are made in the order root, executable, destination
\* and the first that fails decides the error: a root that is no directory gives
\* FileNotFoundError; otherwise a missing executable gives FileNotFoundError
\* (tool missing), also when the destination exists and force is false; the
\* conflict error is raised exactly when the root is a directory, the executable
\* is found, the destination exists and force is false.
C2_FirstFailingCheckDecides ==
    last.called =>
        /\ ~is_dir(last.root_dir) => last.exc = "FileNotFoundError(root)"
        /\ (is_dir(last.root_dir) /\ ~which(last.exiftool_cmd))
               => last.exc = "FileNotFoundError(tool)"
        /\ last.exc = "FileExistsError"
               <=> /\ is_dir(last.root_dir)
                   /\ which(last.exiftool_cmd)
                   /\ before.exists
                   /\ ~last.force
        /\ ErrorKind(last.exc) = "FileNotFoundError"
               <=> (~is_dir(last.root_dir) \/ ~which(last.exiftool_cmd))

C2_Witness ==
    /\ last.called
    /\ is_dir(last.root_dir) /\ ~which(last.exiftool_cmd)
    /\ before.exists /\ ~last.force
    /\ last.exc = "FileNotFoundError(tool)"

\* Every precondition of the latest invocation passed and its extensions are valid.
AllPass ==
    /\ last.called
    /\ is_dir(last.root_dir)
    /\ which(last.exiftool_cmd)
    /\ ~(before.exists /\ ~last.force)
    /\ NormalizedList(last.extensions) # <<>>

\* C3: when all preconditions pass the child is started once, and when it exits
\* with a non-zero status the run raises CalledProcessError, the destination
\* exists holding exactly what the child wrote, and main returns 1.
C3_ChildFailureKeepsOutput ==
    AllPass =>
        /\ last.started = 1
        /\ last.childRc # 0 =>
               /\ last.exc = "CalledProcessError"
               /\ fs[last.output] = File(last.childOut)
               /\ last.status = 1

C3_Witness ==
    /\ AllPass
    /\ last.childRc # 0
    /\ before.exists
    /\ last.childOut = "SourceFile,"
    /\ fs[last.output] = File("SourceFile,")
    /\ last.status = 1

\* C10 as stated: an invocation that fails before the child process is started
\* leaves a destination file that existed in place, its content unchanged.
C10_FailureBeforeChildKeepsDest ==
    (last.called /\ last.exc # "" /\ last.started = 0 /\ before.exists)
        => fs[last.output] = before

(***************************************************************************)
(* Command Builder: properties.                                            *)
(***************************************************************************)
OnlyBlanksAndDots(extensions) ==
    \A i \in 1..Len(extensions) :
        \A j \in 1..Len(extensions[i]) : extensions[i][j] \in {" ", "."}

\* C4 as stated: an extension list whose elements consist only of blanks and
\* dots makes build_exiftool_command fail with the configuration error.
C4_BlanksAndDotsRejected ==
    (bOut.state = "done" /\ OnlyBlanksAndDots(bIn.extensions))
        => bOut.res.exc = "ValueError"

\* The inputs that survive normalization, in input order.
Kept(extensions) == SelectSeq(extensions, LAMBDA e : NormalizeOne(e) # <<>>)

LevelOption(request_all) == IF request_all = 3 THEN "RequestAll=3" ELSE "RequestAll=10"

\* C5: for an extension list that normalizes to a non-empty list the command is
\* the executable, "-api RequestAll=<level>", "-api largefilesupport=1" iff
\* largefile_support, "-G1 -csv", "-r" iff recursive, one "-ext <e>" pair per
\* surviving extension in input order (duplicates kept), and the root last.
C5_CommandShape ==
    (bOut.state = "done" /\ Kept(bIn.extensions) # <<>>) =>
        LET cmd == bOut.res.val
            kept == Kept(bIn.extensions)
            lf == IF bIn.largefile_support THEN 2 ELSE 0
            rc == IF bIn.recursive THEN 1 ELSE 0
            base == 5 + lf + rc
        IN  /\ bOut.res.exc = ""
            /\ Len(cmd) = base + 2 * Len(kept) + 1
            /\ cmd[1] = bIn.exiftool_cmd
            /\ cmd[2] = "-api" /\ cmd[3] = LevelOption(bIn.request_all)
            /\ bIn.largefile_support => (cmd[4] = "-api" /\ cmd[5] = "largefilesupport=1")
            /\ cmd[4 + lf] = "-G1" /\ cmd[5 + lf] = "-csv"
            /\ bIn.recursive => cmd[6 + lf] = "-r"
            /\ \A j \in 1..Len(kept) :
                   /\ cmd[base + 2 * j - 1] = "-ext"
                   /\ cmd[base + 2 * j] = Chars2Str(NormalizeOne(kept[j]))
            /\ cmd[Len(cmd)] = bIn.root_dir
            /\ Cardinality({i \in 1..Len(cmd) : cmd[i] = "-ext"}) = Len(kept)
            /\ Cardinality({i \in 1..Len(cmd) : cmd[i] = "-r"}) = rc

C5_Witness ==
    /\ bOut.state = "done"
    /\ bIn.extensions = << <<".", "A">>, <<"A", " ">> >>
    /\ bIn.largefile_support /\ bIn.recursive /\ bIn.request_all = 3
    /\ bOut.res.val = <<"exiftool", "-api", "RequestAll=3", "-api",
                         "largefilesupport=1", "-G1", "-csv", "-r",
                         "-ext", "a", "-ext", "a", "/evidence">>

(***************************************************************************)
(* JSON values: a tag and a payload.  Object keys and column names are     *)
(* sequences of characters; an object is a function from keys to values.   *)
(***************************************************************************)
\* Every value has the same fields, so that any two can be compared: n holds a
\* number (or a boolean as 0/1), s a string, a an array's elements, o an object.
Value(t, n, s, a, o) == [t |-> t, n |-> n, s |-> s, a |-> a, o |-> o]
Null == Value("null", 0, "", <<>>, <<>>)
Num(n) == Value("num", n, "", <<>>, <<>>)
Str(x) == Value("str", 0, x, <<>>, <<>>)
Bool(x) == Value("bool", IF x THEN 1 ELSE 0, "", <<>>, <<>>)
Arr(x) == Value("arr", 0, "", x, <<>>)
Obj(f) == Value("obj", 0, "", <<>>, f)
\* A cell of the table that no record filled (NaN).
Unset == Value("unset", 0, "", <<>>, <<>>)

\* ord() of the characters that occur in keys.
Ord(c) == CASE c = "." -> 46 [] c = "B" -> 66 [] c = "a" -> 97 [] c = "b" -> 98

\* Python's < on strings: by code point, a proper prefix first.
RECURSIVE LexLess(_, _)
LexLess(x, y) ==
    IF y = <<>> THEN FALSE
    ELSE IF x = <<>> THEN TRUE
    ELSE IF Head(x) # Head(y) THEN Ord(Head(x)) < Ord(Head(y))
    ELSE LexLess(Tail(x), Tail(y))

\* sorted() of a set of distinct strings.
RECURSIVE Sorted(_)
Sorted(S) ==
    IF S = {} THEN <<>>
    ELSE LET m == CHOOSE x \in S : \A y \in S \ {x} : LexLess(x, y)
         IN  <<m>> \o Sorted(S \ {m})

\* type(payload).__name__
TypeName(x) ==
    CASE x.t = "null" -> "NoneType" [] x.t = "num" -> "int" [] x.t = "str" -> "str"
      [] x.t = "bool" -> "bool" [] x.t = "arr" -> "list" [] x.t = "obj" -> "dict"

(***************************************************************************)
(* examples/json_summary.py: _load_json_documents, load_metadata_frame     *)
(***************************************************************************)
Fail(kind, detail) == [exc |-> kind, got |-> detail, val |-> <<>>]
Good(x) == [exc |-> "", got |-> "", val |-> x]

\* A plausible slip: whatever is not a list is wrapped, the type is not checked.
load_json_documents_unchecked(payload) ==
    IF payload.t = "arr" THEN Good(payload.a) ELSE Good(<<payload>>)

\* _load_json_documents, from the parsed payload on.
load_json_documents(payload) ==
    IF payload.t = "arr" THEN Good(payload.a)
    ELSE IF payload.t = "obj" THEN Good(<<payload>>)
    ELSE Fail("ValueError", TypeName(payload))

\* f"{key_string}{separator}{key}", without the leading separator at the top.
JoinKey(key_string, key) ==
    IF key_string = <<>> THEN key ELSE key_string \o <<".">> \o key

\* pandas _normalise_json: the <<path, value>> pairs below an object; only
\* objects are descended into, every other value (an array too) is a leaf.
RECURSIVE normalise_json(_, _)
normalise_json(data, key_string) ==
    IF data.t = "obj"
    THEN UNION {normalise_json(data.o[k], JoinKey(key_string, k)) : k \in DOMAIN data.o}
    ELSE {<<key_string, data>>}

\* pandas _normalise_json_ordered: {**top_dict_, **nested_dict_}.
normalise_json_ordered(record) ==
    LET top == {k \in DOMAIN record.o : record.o[k].t # "obj"}
        nested == UNION {normalise_json(record.o[k], k) :
                            k \in {q \in DOMAIN record.o : record.o[q].t = "obj"}}
        npaths == {pv[1] : pv \in nested}
    IN  [c \in top \cup npaths |->
            IF c \in npaths THEN (CHOOSE pv \in nested : pv[1] = c)[2]
            ELSE record.o[c]]

\* The DataFrame constructor infers each column's dtype.  A column stays an
\* object column, in which a JSON null is kept as None, when it holds a value
\* that is no number (an array, a string, a boolean) or holds nothing but None;
\* otherwise it becomes a float column, in which None is stored as NaN.
ObjectColumn(series) ==
    \/ \E i \in 1..Len(series) : series[i].t \in {"arr", "str", "bool", "obj"}
    \/ \A i \in 1..Len(series) : series[i].t = "null"

\* pd.json_normalize(records, sep=".") followed by the reindex on the sorted
\* column names: one row per record, a cell no record filled is Unset (NaN).
json_normalize_sorted(records) ==
    LET flat == [i \in 1..Len(records) |-> normalise_json_ordered(records[i])]
        cols == UNION {DOMAIN flat[i] : i \in 1..Len(records)}
        raw(i, c) == IF c \in DOMAIN flat[i] THEN flat[i][c] ELSE Unset
        series(c) == [i \in 1..Len(records) |-> raw(i, c)]
    IN  [columns |-> Sorted(cols),
         rows |-> [i \in 1..Len(records) |->
                      [c \in cols |->
                          IF raw(i, c).t = "null" /\ ~ObjectColumn(series(c))
                          THEN Unset ELSE raw(i, c)]]]

load_metadata_frame(payload) ==
    LET records == load_json_documents(payload)
    IN  IF records.exc # "" THEN records ELSE Good(json_normalize_sorted(records.val))

(***************************************************************************)
(* examples/json_summary.py: summarize_columns                             *)
(***************************************************************************)
\* Series.notna(): None and NaN are both null.
notna(cell) == cell.t \notin {"null", "unset"}

Column(frame, c) == [i \in 1..Len(frame.rows) |-> frame.rows[i][c]]

\* int(series.notna().sum())
NonNullCount(series) == Cardinality({i \in 1..Len(series) : notna(series[i])})

\* A plausible slip: dropna=False, a null counts as a value of its own.
nunique_keepna(series) ==
    Cardinality({IF notna(series[i]) THEN series[i] ELSE Null : i \in 1..Len(series)})

\* int(series.nunique(dropna=True))
nunique(series) == Cardinality({series[i] : i \in {j \in 1..Len(series) : notna(series[j])}})

\* Hashing a list raises TypeError: unhashable type.
Unhashable(series) == \E i \in 1..Len(series) : series[i].t = "arr"

\* DataFrame.sort_values("Tag") on rows with distinct tags.
SortByTag(rows) ==
    LET tags == Sorted({rows[i].Tag : i \in 1..Len(rows)})
    IN  [k \in 1..Len(tags) |-> rows[CHOOSE i \in 1..Len(rows) : rows[i].Tag = tags[k]]]

summarize_columns(frame) ==
    LET summary_rows ==
            [k \in 1..Len(frame.columns) |->
                [Tag |-> frame.columns[k],
                 NonNullCount |-> NonNullCount(Column(frame, frame.columns[k])),
                 UniqueValues |-> nunique(Column(frame, frame.columns[k]))]]
    IN  IF \E k \in 1..Len(frame.columns) : Unhashable(Column(frame, frame.columns[k]))
        THEN Fail("TypeError", "list")
        ELSE IF summary_rows = <<>> THEN Fail("KeyError", "Tag")
        ELSE Good(SortByTag(summary_rows))

(***************************************************************************)
(* Summary CLI as a state machine: the document is drawn in the initial    *)
(* state; main() loads it into a frame and summarizes the frame.           *)
(***************************************************************************)
MaxRecords == 2

KeyA == <<"a">>
KeyB == <<"B">>
KeyAB == <<"a", ".", "b">>
Keyb == <<"b">>
SomeArray == Arr(<<Num(1), Num(2)>>)
Objects(keys, vals) == {Obj(f) : f \in UNION {[K -> vals] : K \in SUBSET keys}}
InnerObjects == Objects({Keyb}, {Num(1), SomeArray})
ValuesOf(k) ==
    IF k = KeyA THEN {Num(1), SomeArray} \cup InnerObjects
    ELSE IF k = KeyB THEN {Num(1), Null}
    ELSE {Num(2)}
Records ==
    {Obj(f) : f \in UNION {{g \in [K -> {Num(1), Num(2), Null, SomeArray} \cup InnerObjects] :
                               \A k \in K : g[k] \in ValuesOf(k)} :
                           K \in SUBSET {KeyA, KeyB, KeyAB}}}
Documents ==
    {Arr(r) : r \in SeqsUpTo(Records, MaxRecords)} \cup Records
        \cup {Num(1), Str("x"), Bool(TRUE), Null}

JsonIdle ==
    /\ jDoc = Null /\ jStage = "idle" /\ jRecords = Good(<<>>)
    /\ jFrame = Good(<<>>) /\ jSummary = Good(<<>>)

JsonInit ==
    /\ jDoc \in Documents
    /\ jStage = "start"
    /\ jRecords = Good(<<>>) /\ jFrame = Good(<<>>) /\ jSummary = Good(<<>>)

\* frame = load_metadata_frame(args.json_path)
LoadMetadataFrame ==
    /\ jStage = "start"
    /\ jRecords' = load_json_documents(jDoc)
    /\ jFrame' = load_metadata_frame(jDoc)
    /\ jStage' = IF jFrame'.exc # "" THEN "failed" ELSE "framed"
    /\ UNCHANGED <<jDoc, jSummary, dumpVars, buildVars, diffVars>>

\* summary = summarize_columns(frame)
SummarizeColumns ==
    /\ jStage = "framed"
    /\ jSummary' = summarize_columns(jFrame.val)
    /\ jStage' = IF jSummary'.exc # "" THEN "failed" ELSE "summarized"
    /\ UNCHANGED <<jDoc, jRecords, jFrame, dumpVars, buildVars, diffVars>>

(***************************************************************************)
(* examples/json_summary.py: compare_summaries                             *)
(***************************************************************************)
\* A statistic of the merged table: an integer, or NaN where a side has no row.
Stat(n) == [nan |-> FALSE, n |-> n]
NaN == [nan |-> TRUE, n |-> 0]

\* != on two cells of the merged table: NaN differs from everything.
Differs(x, y) == x.nan \/ y.nan \/ x.n # y.n

Tags(summary) == {summary[i].Tag : i \in 1..Len(summary)}
RowOf(summary, t) == summary[CHOOSE i \in 1..Len(summary) : summary[i].Tag = t]

\* existing.merge(new, on="Tag", how="outer", suffixes=("_old", "_new"))
merge_outer(existing, new) ==
    LET tags == Sorted(Tags(existing) \cup Tags(new))
        old(t, col) == IF t \in Tags(existing) THEN Stat(RowOf(existing, t)[col]) ELSE NaN
        nw(t, col) == IF t \in Tags(new) THEN Stat(RowOf(new, t)[col]) ELSE NaN
    IN  [k \in 1..Len(tags) |->
            [Tag |-> tags[k],
             NonNullCount_old |-> old(tags[k], "NonNullCount"),
             UniqueValues_old |-> old(tags[k], "UniqueValues"),
             NonNullCount_new |-> nw(tags[k], "NonNullCount"),
             UniqueValues_new |-> nw(tags[k], "UniqueValues")]]

\* A plausible slip: only the non-null counts are compared.
MismatchedCountsOnly(row) == Differs(row.NonNullCount_old, row.NonNullCount_new)

\* The filter of compare_summaries.
Mismatched(row) ==
    \/ Differs(row.NonNullCount_old, row.NonNullCount_new)
    \/ Differs(row.UniqueValues_old, row.UniqueValues_new)

compare_summaries(new, existing) ==
    LET merged == merge_outer(existing, new)
        mismatched == SelectSeq(merged, Mismatched)
    IN  SortByTag(mismatched)

(***************************************************************************)
(* Differ as a state machine: two summaries with unique tags are drawn in  *)
(* the initial state, Compare applies the function.                        *)
(***************************************************************************)
MaxCount == 1

SummaryTags == {KeyA, KeyB}
SummaryRows == [Tag : SummaryTags, NonNullCount : 0..MaxCount, UniqueValues : 0..MaxCount]
Summaries ==
    {s \in SeqsUpTo(SummaryRows, Cardinality(SummaryTags)) :
        \A i, j \in 1..Len(s) : i # j => s[i].Tag # s[j].Tag}

DiffIdle == dNew = <<>> /\ dOld = <<>> /\ dOut = [state |-> "idle"]

DiffInit == dNew \in Summaries /\ dOld \in Summaries /\ dOut = [state |-> "idle"]

Compare ==
    /\ dOut.state = "idle"
    /\ dOut' = [state |-> "done", rows |-> compare_summaries(dNew, dOld)]
    /\ UNCHANGED <<dNew, dOld, dumpVars, buildVars, jsonVars>>

(***************************************************************************)
(* Summary CLI: properties.                                                *)
(***************************************************************************)
Framed == jStage \in {"framed", "summarized"} \/ (jStage = "failed" /\ jFrame.exc = "")

\* C8: an array is returned as the record list unchanged; a bare object is
\* wrapped in a one-element list, so that it gives the same table as the
\* one-element array holding it; a number, string, boolean or null fails with
\* ValueError naming the Python type, and no records are returned.
C8_LoaderShapes ==
    jStage # "start" =>
        /\ jDoc.t = "arr" => jRecords = Good(jDoc.a)
        /\ jDoc.t = "obj" =>
               /\ jRecords = Good(<<jDoc>>)
               /\ jFrame = load_metadata_frame(Arr(<<jDoc>>))
               /\ jFrame.exc = "" /\ Len(jFrame.val.rows) = 1
        /\ jDoc.t \notin {"arr", "obj"} =>
               /\ jStage = "failed"
               /\ jRecords.exc = "ValueError" /\ jRecords.val = <<>>
               /\ jFrame.exc = "ValueError" /\ jFrame.val = <<>>
               /\ jRecords.got = (CASE jDoc.t = "num" -> "int" [] jDoc.t = "str" -> "str"
                                    [] jDoc.t = "bool" -> "bool" [] jDoc.t = "null" -> "NoneType")

C8_Witness ==
    /\ jDoc = Str("x")
    /\ jStage = "failed"
    /\ jRecords.exc = "ValueError" /\ jRecords.got = "str"

\* C9 as stated: the table has one row per record, its columns are in strict
\* ascending order, and nested objects AND nested arrays are all resolved into
\* dot-joined paths, so that no cell of the table holds an object or an array.
C9_NoObjectOrArrayCell ==
    Framed =>
        /\ Len(jFrame.val.rows) = Len(jRecords.val)
        /\ \A k \in 1..(Len(jFrame.val.columns) - 1) :
               LexLess(jFrame.val.columns[k], jFrame.val.columns[k + 1])
        /\ \A i \in 1..Len(jFrame.val.rows) :
               \A c \in DOMAIN jFrame.val.rows[i] :
                   jFrame.val.rows[i][c].t \notin {"obj", "arr"}

\* C6: whenever summarize_columns returns, there is one summary row per column,
\* the rows ascend by Tag, and in every row NonNullCount is the number of rows
\* with a present value, UniqueValues the number of distinct present values, and
\* 0 <= UniqueValues <= NonNullCount <= number of records.
C6_SummaryCounts ==
    jStage = "summarized" =>
        LET frame == jFrame.val
            rows == jSummary.val
            present(c) == {i \in 1..Len(frame.rows) :
                              frame.rows[i][c].t \notin {"null", "unset"}}
        IN  /\ jSummary.exc = ""
            /\ Len(rows) = Len(frame.columns)
            /\ {rows[k].Tag : k \in 1..Len(rows)}
                   = {frame.columns[k] : k \in 1..Len(frame.columns)}
            /\ \A k \in 1..(Len(rows) - 1) : LexLess(rows[k].Tag, rows[k + 1].Tag)
            /\ \A k \in 1..Len(rows) :
                   /\ rows[k].NonNullCount = Cardinality(present(rows[k].Tag))
                   /\ rows[k].UniqueValues
                          = Cardinality({frame.rows[i][rows[k].Tag] : i \in present(rows[k].Tag)})
                   /\ 0 <= rows[k].UniqueValues
                   /\ rows[k].UniqueValues <= rows[k].NonNullCount
                   /\ rows[k].NonNullCount <= Len(frame.rows)

C6_Witness ==
    /\ jStage = "summarized"
    /\ Len(jSummary.val) >= 2
    /\ \E k \in 1..Len(jSummary.val) :
           jSummary.val[k].UniqueValues < jSummary.val[k].NonNullCount
    /\ \E k \in 1..Len(jSummary.val) :
           /\ jSummary.val[k].NonNullCount = 0
           /\ jSummary.val[k].NonNullCount < Len(jFrame.val.rows)

(***************************************************************************)
(* Differ: properties.                                                     *)
(***************************************************************************)
\* Tag t is reported when the two summaries are compared.
Drifted(new, existing, t) ==
    \/ t \in Tags(new) /\ t \notin Tags(existing)
    \/ t \in Tags(existing) /\ t \notin Tags(new)
    \/ /\ t \in Tags(new) /\ t \in Tags(existing)
       /\ \/ RowOf(new, t).NonNullCount # RowOf(existing, t).NonNullCount
          \/ RowOf(new, t).UniqueValues # RowOf(existing, t).UniqueValues

\* C7: compare_summaries returns a row for Tag t exactly when t is in one
\* summary only, or in both with a different NonNullCount or UniqueValues; the
\* rows ascend by Tag; a summary compared with itself gives no rows; the result
\* is empty one way round iff it is empty the other way round.
C7_DiffRows ==
    dOut.state = "done" =>
        LET rows == dOut.rows
        IN  /\ \A t \in SummaryTags :
                   Drifted(dNew, dOld, t) <=> \E k \in 1..Len(rows) : rows[k].Tag = t
            /\ \A j, k \in 1..Len(rows) : j < k => LexLess(rows[j].Tag, rows[k].Tag)
            /\ dNew = dOld => rows = <<>>
            /\ rows = <<>> <=> compare_summaries(dOld, dNew) = <<>>

C7_Witness ==
    /\ dOut.state = "done"
    /\ dNew = <<[Tag |-> KeyA, NonNullCount |-> 1, UniqueValues |-> 0],
                [Tag |-> KeyB, NonNullCount |-> 1, UniqueValues |-> 1]>>
    /\ dOld = <<[Tag |-> KeyA, NonNullCount |-> 1, UniqueValues |-> 1]>>
    /\ Len(dOut.rows) = 2
    /\ dOut.rows[1].Tag = KeyB /\ dOut.rows[1].NonNullCount_old = NaN
    /\ dOut.rows[2].Tag = KeyA /\ dOut.rows[2].UniqueValues_new = Stat(0)

(***************************************************************************)
(* Specifications.                                                         *)
(***************************************************************************)
Init == DumpInit /\ BuildIdle /\ JsonIdle /\ DiffIdle
Next == DumpNext
Spec == Init /\ [][Next]_vars

InitBuild == DumpIdle /\ BuildInit /\ JsonIdle /\ DiffIdle
NextBuild == Build
SpecBuild == InitBuild /\ [][NextBuild]_vars

InitJson == DumpIdle /\ BuildIdle /\ JsonInit /\ DiffIdle
NextJson == LoadMetadataFrame \/ SummarizeColumns
SpecJson == InitJson /\ [][NextJson]_vars

InitDiff == DumpIdle /\ BuildIdle /\ JsonIdle /\ DiffInit
NextDiff == Compare
SpecDiff == InitDiff /\ [][NextDiff]_vars
====
